---------------------------- MODULE Spec2Model ----------------------------
(***************************************************************************)
(* Model of backend/src/handler.rs of wishlist-full: the read handlers of  *)
(* a wishlist service over four MongoDB collections (wishlist, product,    *)
(* source, category).                                                      *)
(*                                                                         *)
(* Every handler is an async fn.  Its states are its await points: an      *)
(* action is either the start of a handler (up to its first storage call)  *)
(* or the answer of the storage to the outstanding call together with the  *)
(* handler's code up to the next storage call or its return.               *)
(***************************************************************************)
EXTENDS Integers, Sequences, FiniteSets, TLC

(***************************************************************************)
(* Bounds of the model.                                                    *)
(***************************************************************************)
MaxProductId == 3      \* product ids of the small collections: 1..MaxProductId
MaxSourceId == 2       \* source ids: 1..MaxSourceId
MaxTimestamp == 2      \* product timestamps: 1..MaxTimestamp
MaxWishlists == 2      \* wishlists stored in one behaviour
MaxVersion == 2        \* contents a stored source goes through
MaxCursorErrors == 1   \* failing entries of one cursor
MaxPerPage == 2        \* pagination.per_page: 1..MaxPerPage
MaxOffset == 2         \* pagination.offset: 0..MaxOffset
MaxExtra == 1          \* products beyond NewestLimit in the large collection

(***************************************************************************)
(* Program constants.                                                      *)
(***************************************************************************)
NewestLimit == 10      \* .limit(10) of handle_get_newest_products
NoId == 0              \* Option::None of an identifier (get_source_id, get_id)

ProductIds == 1..MaxProductId
SourceIds == 1..MaxSourceId
CategoryNames == {"null", "A", "B"}

VARIABLES
    wishlists,    \* collection "wishlist": set of [timestamp, loaded, product_ids]
    products,     \* collection "product": set of [id, timestamp, source_id, category]
    sources,      \* collection "source": [SourceIds -> 0..MaxVersion], 0: no document
    categories,   \* collection "category": set of [id, name]
    op,           \* the handler in progress
    arg,          \* its input: [offset, per_page, name]
    pc,           \* its await point: idle, wishlist, products, source, count,
                  \* category, categories, done
    pending,      \* storage calls issued and not yet answered
    calls,        \* storage calls issued by the handler so far, in order
    wishlist,     \* local: the Wishlist read by get_last_wishlist
    category,     \* local: the Category returned by get_category_by_name
    cursor,       \* local: the entries the last cursor yielded
    batch,        \* local: the Vec<Product> being hydrated
    idx,          \* local: position of load_source_for_products in batch
    cache,        \* local: the BTreeMap sources of load_source_for_products
    result,       \* the handler's Result once pc = "done"
    history       \* what an observing caller remembers of the results it took

dbvars == <<wishlists, products, sources, categories>>
locals == <<wishlist, category, cursor, batch, idx, cache>>
vars == <<wishlists, products, sources, categories, op, arg, pc, pending,
          calls, wishlist, category, cursor, batch, idx, cache, result, history>>

(***************************************************************************)
(* Values.                                                                 *)
(***************************************************************************)
NoSource == [id |-> NoId, data |-> 0]
NoWishlist == [timestamp |-> 0, loaded |-> FALSE, product_ids |-> {},
               has_products |-> FALSE, products |-> <<>>]
DefaultCategory == [id |-> NoId, name |-> ""]
NoArg == [offset |-> 0, per_page |-> 0, name |-> ""]
\* Mutant: the cache of a call starts with the sources earlier calls returned.
StaleCache ==
    [s \in {t \in SourceIds : history.fetched[t] # 0} |->
        [id |-> s, data |-> history.fetched[s]]]
EmptyCache == [s \in {} |-> NoSource]

Ok(v) == [status |-> "Ok", value |-> v]
Err(e) == [status |-> "Err", error |-> e]
EmptyResult == [kind |-> "EmptyResult"]
StorageError == [kind |-> "StorageError"]
FieldNotLoaded(entity, fld) == [kind |-> "FieldNotLoaded", entity |-> entity, field |-> fld]
NoResult == [status |-> "None"]
\* Nothing remembered: no count taken (stamp 0) and no source seen (data 0).
NoHistory == [stamp |-> 0, count |-> 0, fetched |-> [s \in SourceIds |-> 0]]

\* A query on the product collection: filter, sort, skip, limit, projection.
\* limit 0 is no limit.
Query(filter, ids, cat, sort, skip, limit, projected) ==
    [filter |-> filter, ids |-> ids, cat |-> cat, sort |-> sort, skip |-> skip,
     limit |-> limit, projected |-> projected]
NoQuery == Query("none", {}, NoId, "natural", 0, 0, FALSE)

\* A storage call: collection, kind (find_one, find, count_documents) and what
\* it asks for.
Request(coll, kind, id, name, query) ==
    [coll |-> coll, kind |-> kind, id |-> id, name |-> name, query |-> query]

(***************************************************************************)
(* Conversions of stored documents (model.rs, not part of handler.rs).     *)
(***************************************************************************)
\* Wishlist::from(&doc): product_ids is loaded iff the document carries it.
WishlistFrom(d) ==
    [timestamp |-> d.timestamp, loaded |-> d.loaded, product_ids |-> d.product_ids,
     has_products |-> FALSE, products |-> <<>>]

\* Product::from(doc).  doc is the identity of the stored document, kept to
\* state the claims; id is the decoded field, absent under the projection
\* {"_id": false, "item_id": false}.
ProductFrom(d, projected) ==
    [doc |-> d.id, id |-> IF projected THEN NoId ELSE d.id,
     timestamp |-> d.timestamp, source_id |-> d.source_id,
     category |-> d.category, source |-> NoSource]

SourceFrom(s, data) == [id |-> s, data |-> data]
CategoryFrom(d) == [id |-> d.id, name |-> d.name]

(***************************************************************************)
(* The storage: what MongoDB answers to the queries the handlers build.    *)
(***************************************************************************)
Min(a, b) == IF a < b THEN a ELSE b

\* The documents of coll a query's filter selects.
Matches(coll, q) ==
    CASE q.filter = "in" -> {d \in coll : d.id \in q.ids}
      [] q.filter = "not_in" -> {d \in coll : d.id \notin q.ids}
      [] q.filter = "category" -> {d \in coll : d.category = q.cat}
      [] OTHER -> coll

RECURSIVE SortByIdDesc(_)
SortByIdDesc(S) ==
    IF S = {} THEN <<>>
    ELSE LET m == CHOOSE d \in S : \A e \in S : e.id <= d.id
         IN <<m>> \o SortByIdDesc(S \ {m})

RECURSIVE SortByIdAsc(_)
SortByIdAsc(S) ==
    IF S = {} THEN <<>>
    ELSE LET m == CHOOSE d \in S : \A e \in S : d.id <= e.id
         IN <<m>> \o SortByIdAsc(S \ {m})

\* sort {"timestamp": -1}: documents of equal timestamp come in any order.
RECURSIVE SortsByTimestampDesc(_)
SortsByTimestampDesc(S) ==
    IF S = {} THEN {<<>>}
    ELSE UNION {{<<m>> \o t : t \in SortsByTimestampDesc(S \ {m})} :
                m \in {d \in S : \A e \in S : e.timestamp <= d.timestamp}}

\* The orders in which the storage may deliver S under a sort option; without
\* one, documents come in natural (insertion, ascending id) order.
Orderings(S, sort) ==
    CASE sort = "id_desc" -> {SortByIdDesc(S)}
      [] sort = "ts_desc" -> SortsByTimestampDesc(S)
      [] OTHER -> {SortByIdAsc(S)}

\* skip and limit of FindOptions.
Window(s, skip, limit) ==
    LET last == IF limit = 0 THEN Len(s) ELSE Min(Len(s), skip + limit)
    IN SubSeq(s, skip + 1, last)

\* coll.find(filter, options): the document sequences the cursor may deliver.
Find(coll, q) == {Window(s, q.skip, q.limit) : s \in Orderings(Matches(coll, q), q.sort)}

\* coll.count_documents(filter, None).
CountDocuments(coll, q) == Cardinality(Matches(coll, q))

\* The entries of a cursor over ds: cursor.next() yields Err at the positions
\* of E and Ok(document) elsewhere.
ErrorSets(n) == {E \in SUBSET (1..n) : Cardinality(E) <= MaxCursorErrors}
Entries(ds, E) == [i \in 1..Len(ds) |-> [ok |-> i \notin E, doc |-> ds[i]]]

\* Mutant: sort {"timestamp": 1}.
OldestWishlist(coll) == CHOOSE w \in coll : \A v \in coll : w.timestamp <= v.timestamp

\* find_one on the wishlist collection with sort {"timestamp": -1}.
LatestWishlist(coll) == CHOOSE w \in coll : \A v \in coll : v.timestamp <= w.timestamp

\* find_one on the category collection with filter {"name": name}: the first
\* match in natural order.
CategoriesNamed(coll, name) == {c \in coll : c.name = name}
FirstCategoryNamed(coll, name) ==
    CHOOSE c \in CategoriesNamed(coll, name) :
        \A e \in CategoriesNamed(coll, name) : c.id <= e.id

(***************************************************************************)
(* extract_cursor_results: Ok entries are converted and pushed in cursor   *)
(* order, Err entries are skipped.                                         *)
(***************************************************************************)
\* Mutant: the loop ends at the first entry that is Err.
RECURSIVE ExtractFromStopping(_, _, _)
ExtractFromStopping(entries, i, projected) ==
    IF i > Len(entries) THEN <<>>
    ELSE IF entries[i].ok
         THEN <<ProductFrom(entries[i].doc, projected)>>
                  \o ExtractFromStopping(entries, i + 1, projected)
         ELSE <<>>

RECURSIVE ExtractFrom(_, _, _)
ExtractFrom(entries, i, projected) ==
    IF i > Len(entries) THEN <<>>
    ELSE IF entries[i].ok
         THEN <<ProductFrom(entries[i].doc, projected)>>
                  \o ExtractFrom(entries, i + 1, projected)
         ELSE ExtractFrom(entries, i + 1, projected)

ExtractCursorResults(entries, projected) == ExtractFrom(entries, 1, projected)

RECURSIVE ExtractCategoriesFrom(_, _)
ExtractCategoriesFrom(entries, i) ==
    IF i > Len(entries) THEN <<>>
    ELSE IF entries[i].ok
         THEN <<CategoryFrom(entries[i].doc)>> \o ExtractCategoriesFrom(entries, i + 1)
         ELSE ExtractCategoriesFrom(entries, i + 1)

ExtractCategoryResults(entries) == ExtractCategoriesFrom(entries, 1)

(***************************************************************************)
(* The queries the handlers build.                                         *)
(***************************************************************************)
\* Mutant: no limit.
NewestQueryUnlimited == Query("all", {}, NoId, "id_desc", 0, 0, TRUE)
\* Mutant: "$in" for "$not $in".
ArchivedQueryIn(ids, offset, perPage) ==
    Query("in", ids, NoId, "id_desc", offset, perPage, TRUE)
\* Mutant: the offset is not passed to skip.
ArchivedQueryNoSkip(ids, offset, perPage) ==
    Query("not_in", ids, NoId, "id_desc", 0, perPage, TRUE)
\* Mutant: no filter.
ArchivedCountQueryAll(ids) == Query("all", ids, NoId, "natural", 0, 0, FALSE)
\* Mutant: the count's filter is "$in".
ArchivedCountQueryIn(ids) == Query("in", ids, NoId, "natural", 0, 0, FALSE)
\* Mutant: sorted by identifier.
ByIdQueryByIdDesc(ids) == Query("in", ids, NoId, "id_desc", 0, 0, TRUE)

\* handle_get_newest_products
NewestQuery == Query("all", {}, NoId, "id_desc", 0, NewestLimit, TRUE)
\* handle_get_archived_products
ArchivedQuery(ids, offset, perPage) ==
    Query("not_in", ids, NoId, "id_desc", offset, perPage, TRUE)
\* handle_get_archive_product_count
ArchivedCountQuery(ids) == Query("not_in", ids, NoId, "natural", 0, 0, FALSE)
\* get_products_by_id
ByIdQuery(ids) == Query("in", ids, NoId, "ts_desc", 0, 0, TRUE)
\* get_products_by_category
ByCategoryQuery(id) == Query("category", {}, id, "natural", 0, 0, FALSE)

(***************************************************************************)
(* Single-record lookups: each await either fails in the storage client    *)
(* (map_err(Error::from)), matches nothing (EmptyResult) or yields the     *)
(* converted document.                                                     *)
(***************************************************************************)
\* Mutant: no wishlist yields an empty one (unwrap_or_default).
GetLastWishlistOrDefault(coll) ==
    {Err(StorageError)}
        \cup (IF coll = {} THEN {Ok([NoWishlist EXCEPT !.loaded = TRUE])}
              ELSE {Ok(WishlistFrom(LatestWishlist(coll)))})

\* get_wishlist, called by get_last_wishlist with sort {"timestamp": -1}
GetLastWishlist(coll) ==
    {Err(StorageError)}
        \cup (IF coll = {} THEN {Err(EmptyResult)}
              ELSE {Ok(WishlistFrom(LatestWishlist(coll)))})

\* get_source_by_id
GetSourceById(coll, id) ==
    {Err(StorageError)}
        \cup (IF coll[id] = 0 THEN {Err(EmptyResult)}
              ELSE {Ok(SourceFrom(id, coll[id]))})

\* Mutant: no match yields the default category (unwrap_or_default).
FindCategoryByNameOrDefault(coll, name) ==
    {Err(StorageError)}
        \cup (IF CategoriesNamed(coll, name) = {} THEN {Ok(DefaultCategory)}
              ELSE {Ok(CategoryFrom(FirstCategoryNamed(coll, name)))})

\* the find_one of get_category_by_name
FindCategoryByName(coll, name) ==
    {Err(StorageError)}
        \cup (IF CategoriesNamed(coll, name) = {} THEN {Err(EmptyResult)}
              ELSE {Ok(CategoryFrom(FirstCategoryNamed(coll, name)))})

\* coll.find(filter, options).await? followed by the cursor's entries
FindCursor(coll, q) ==
    {Err(StorageError)}
        \cup UNION {{Ok(Entries(ds, E)) : E \in ErrorSets(Len(ds))} : ds \in Find(coll, q)}

\* count_documents
CountOutcomes(coll, q) == {Err(StorageError), Ok(CountDocuments(coll, q))}

(***************************************************************************)
(* Await points.                                                           *)
(***************************************************************************)
\* Mutant: the next call is issued without awaiting the answer to the last.
AwaitNever(answered, r, newpc) ==
    /\ pending' = pending \cup {r}
    /\ calls' = Append(calls, r)
    /\ pc' = newpc
    /\ result' = result

\* The storage has answered the calls of answered; the handler issues r and
\* suspends at newpc.
Await(answered, r, newpc) ==
    /\ pending' = (pending \ answered) \cup {r}
    /\ calls' = Append(calls, r)
    /\ pc' = newpc
    /\ result' = result

\* The handler returns res.
Finish(answered, res) ==
    /\ pending' = pending \ answered
    /\ calls' = calls
    /\ pc' = "done"
    /\ result' = res

WishlistRequest == Request("wishlist", "find_one", NoId, "", NoQuery)
SourceRequest(id) == Request("source", "find_one", id, "", NoQuery)
CategoryRequest(name) == Request("category", "find_one", NoId, name, NoQuery)
CategoriesRequest == Request("category", "find", NoId, "", NoQuery)
ProductsRequest(q) == Request("product", "find", NoId, "", q)
CountRequest(q) == Request("product", "count_documents", NoId, "", q)

(***************************************************************************)
(* load_source_for_products.                                               *)
(***************************************************************************)
\* Mutant: the cache is never hit.
OccupiedNever(c, sid) == FALSE

\* Entry::Occupied of sources.entry(source_id)
Occupied(c, sid) == sid \in DOMAIN c

\* Mutant: a product without source id is passed over and the loop goes on.
RECURSIVE HydrateFromSkipping(_, _, _)
HydrateFromSkipping(ps, i, c) ==
    IF i > Len(ps) THEN [kind |-> "finished", prods |-> ps, idx |-> i]
    ELSE IF ps[i].source_id = NoId THEN HydrateFromSkipping(ps, i + 1, c)
    ELSE IF Occupied(c, ps[i].source_id)
         THEN HydrateFromSkipping([ps EXCEPT ![i].source = c[ps[i].source_id]], i + 1, c)
         ELSE [kind |-> "await", prods |-> ps, idx |-> i]

\* Mutant: a cache hit does not set the product's source.
RECURSIVE HydrateFromNoHit(_, _, _)
HydrateFromNoHit(ps, i, c) ==
    IF i > Len(ps) THEN [kind |-> "finished", prods |-> ps, idx |-> i]
    ELSE IF ps[i].source_id = NoId THEN [kind |-> "error", prods |-> ps, idx |-> i]
    ELSE IF Occupied(c, ps[i].source_id)
         THEN HydrateFromNoHit(ps, i + 1, c)
         ELSE [kind |-> "await", prods |-> ps, idx |-> i]

\* The loop from position i with cache c, run to its next await (a vacant
\* entry), to its error return or to its end.
RECURSIVE HydrateFrom(_, _, _)
HydrateFrom(ps, i, c) ==
    IF i > Len(ps) THEN [kind |-> "finished", prods |-> ps, idx |-> i]
    ELSE IF ps[i].source_id = NoId THEN [kind |-> "error", prods |-> ps, idx |-> i]
    ELSE IF Occupied(c, ps[i].source_id)
         THEN HydrateFrom([ps EXCEPT ![i].source = c[ps[i].source_id]], i + 1, c)
         ELSE [kind |-> "await", prods |-> ps, idx |-> i]

\* What the caller of load_source_for_products does with the hydrated batch:
\* load_wishlist sets it on the wishlist, which handle_get_last_wishlist
\* returns; load_products returns it.
Hydrated(answered, ps) ==
    IF op = "getLastWishlistHydrated"
    THEN /\ wishlist' = [wishlist EXCEPT !.has_products = TRUE, !.products = ps]
         /\ Finish(answered, Ok(wishlist'))
    ELSE /\ wishlist' = wishlist
         /\ Finish(answered, Ok(ps))

\* load_source_for_products over ps from position i with cache c.
Hydration(answered, ps, i, c) ==
    LET h == HydrateFrom(ps, i, c)
    IN /\ batch' = h.prods
       /\ idx' = h.idx
       /\ cache' = c
       /\ CASE h.kind = "error" ->
                 /\ Finish(answered, Err(FieldNotLoaded("product", "source_id")))
                 /\ wishlist' = wishlist
            [] h.kind = "await" ->
                 /\ Await(answered, SourceRequest(h.prods[h.idx].source_id), "source")
                 /\ wishlist' = wishlist
            [] OTHER -> Hydrated(answered, h.prods)

\* The storage answers get_source_by_id: the source is inserted in the cache
\* and set on the product, and the loop goes on.
SourceAnswer ==
    /\ pc = "source"
    /\ \E r \in pending : \E o \in GetSourceById(sources, r.id) :
         IF o.status = "Err"
         THEN /\ Finish({r}, o)
              /\ UNCHANGED locals
         ELSE /\ Hydration({r}, [batch EXCEPT ![idx].source = o.value], idx + 1,
                           cache @@ (r.id :> o.value))
              /\ UNCHANGED <<category, cursor>>
    /\ UNCHANGED <<dbvars, op, arg>>
    /\ UNCHANGED history

\* Mutant: product ids that are not loaded count as none (unwrap_or_default).
ProductIdsOrEmpty(w) == Ok(w.product_ids)

\* wishlist.get_product_ids().ok_or(Error::FieldNotLoaded("wishlist", "product_ids"))
ProductIdsOf(w) ==
    IF w.loaded THEN Ok(w.product_ids)
    ELSE Err(FieldNotLoaded("wishlist", "product_ids"))

(***************************************************************************)
(* handle_get_last_wishlist                                                *)
(***************************************************************************)
GetLastWishlistHydrated ==
    /\ pc = "idle"
    /\ op' = "getLastWishlistHydrated"
    /\ arg' = NoArg
    /\ Await({}, WishlistRequest, "wishlist")
    /\ UNCHANGED <<dbvars, locals>>
    /\ UNCHANGED history

\* get_last_wishlist answers; load_wishlist requires product_ids and issues
\* get_products_by_id.
LoadWishlist ==
    /\ pc = "wishlist"
    /\ op = "getLastWishlistHydrated"
    /\ \E r \in pending : \E o \in GetLastWishlist(wishlists) :
         IF o.status = "Err"
         THEN /\ Finish({r}, o)
              /\ wishlist' = wishlist
         ELSE /\ wishlist' = o.value
              /\ LET ids == ProductIdsOf(o.value)
                 IN IF ids.status = "Err"
                    THEN Finish({r}, ids)
                    ELSE Await({r}, ProductsRequest(ByIdQuery(ids.value)), "products")
    /\ UNCHANGED <<dbvars, op, arg, category, cursor, batch, idx, cache>>
    /\ UNCHANGED history

\* get_products_by_id answers; load_wishlist goes on with
\* load_source_for_products.
LoadWishlistProducts ==
    /\ pc = "products"
    /\ op = "getLastWishlistHydrated"
    /\ \E r \in pending : \E o \in FindCursor(products, r.query) :
         IF o.status = "Err"
         THEN /\ Finish({r}, o)
              /\ UNCHANGED <<wishlist, cursor, batch, idx, cache>>
         ELSE /\ cursor' = o.value
              /\ Hydration({r}, ExtractCursorResults(o.value, r.query.projected), 1,
                           EmptyCache)
    /\ UNCHANGED <<dbvars, op, arg, category>>
    /\ UNCHANGED history

(***************************************************************************)
(* load_products: the find answers, the cursor is extracted and the batch  *)
(* hydrated.                                                               *)
(***************************************************************************)
LoadProducts ==
    /\ pc = "products"
    /\ op # "getLastWishlistHydrated"
    /\ \E r \in pending : \E o \in FindCursor(products, r.query) :
         IF o.status = "Err"
         THEN /\ Finish({r}, o)
              /\ UNCHANGED <<wishlist, cursor, batch, idx, cache>>
         ELSE /\ cursor' = o.value
              /\ Hydration({r}, ExtractCursorResults(o.value, r.query.projected), 1,
                           EmptyCache)
    /\ UNCHANGED <<dbvars, op, arg, category>>
    /\ UNCHANGED history

(***************************************************************************)
(* handle_get_newest_products                                              *)
(***************************************************************************)
GetNewestProducts ==
    /\ pc = "idle"
    /\ op' = "getNewestProducts"
    /\ arg' = NoArg
    /\ Await({}, ProductsRequest(NewestQuery), "products")
    /\ UNCHANGED <<dbvars, locals>>
    /\ UNCHANGED history

(***************************************************************************)
(* handle_get_archived_products                                            *)
(***************************************************************************)
GetArchivedProducts ==
    /\ pc = "idle"
    /\ \E perPage \in 1..MaxPerPage : \E offset \in 0..MaxOffset :
         /\ op' = "getArchivedProducts"
         /\ arg' = [NoArg EXCEPT !.offset = offset, !.per_page = perPage]
    /\ Await({}, WishlistRequest, "wishlist")
    /\ UNCHANGED <<dbvars, locals>>
    /\ UNCHANGED history

\* get_last_wishlist answers; the filter and the options are built and
\* load_products is called.
ArchivedProductsWishlist ==
    /\ pc = "wishlist"
    /\ op = "getArchivedProducts"
    /\ \E r \in pending : \E o \in GetLastWishlist(wishlists) :
         IF o.status = "Err"
         THEN /\ Finish({r}, o)
              /\ wishlist' = wishlist
         ELSE /\ wishlist' = o.value
              /\ LET ids == ProductIdsOf(o.value)
                 IN IF ids.status = "Err"
                    THEN Finish({r}, ids)
                    ELSE Await({r}, ProductsRequest(ArchivedQuery(ids.value, arg.offset,
                                                                  arg.per_page)), "products")
    /\ UNCHANGED <<dbvars, op, arg, category, cursor, batch, idx, cache>>
    /\ UNCHANGED history

(***************************************************************************)
(* handle_get_archive_product_count                                        *)
(***************************************************************************)
GetArchivedProductCount ==
    /\ pc = "idle"
    /\ op' = "getArchivedProductCount"
    /\ arg' = NoArg
    /\ Await({}, WishlistRequest, "wishlist")
    /\ UNCHANGED <<dbvars, locals>>
    /\ UNCHANGED history

ArchivedCountWishlist ==
    /\ pc = "wishlist"
    /\ op = "getArchivedProductCount"
    /\ \E r \in pending : \E o \in GetLastWishlist(wishlists) :
         IF o.status = "Err"
         THEN /\ Finish({r}, o)
              /\ wishlist' = wishlist
         ELSE /\ wishlist' = o.value
              /\ LET ids == ProductIdsOf(o.value)
                 IN IF ids.status = "Err"
                    THEN Finish({r}, ids)
                    ELSE Await({r}, CountRequest(ArchivedCountQuery(ids.value)), "count")
    /\ UNCHANGED <<dbvars, op, arg, category, cursor, batch, idx, cache>>
    /\ UNCHANGED history

\* count_documents answers.
ArchivedCountAnswer ==
    /\ pc = "count"
    /\ \E r \in pending : \E o \in CountOutcomes(products, r.query) : Finish({r}, o)
    /\ UNCHANGED <<dbvars, op, arg, locals>>
    /\ UNCHANGED history

(***************************************************************************)
(* handle_get_categories / get_categories                                  *)
(***************************************************************************)
GetCategories ==
    /\ pc = "idle"
    /\ op' = "getCategories"
    /\ arg' = NoArg
    /\ Await({}, CategoriesRequest, "categories")
    /\ UNCHANGED <<dbvars, locals>>
    /\ UNCHANGED history

\* coll.find(None, None) on the category collection and its cursor.
FindCategories(coll) ==
    {Err(StorageError)}
        \cup {Ok(Entries(SortByIdAsc(coll), E)) : E \in ErrorSets(Cardinality(coll))}

CategoriesAnswer ==
    /\ pc = "categories"
    /\ \E r \in pending : \E o \in FindCategories(categories) :
         IF o.status = "Err"
         THEN /\ Finish({r}, o)
              /\ cursor' = cursor
         ELSE /\ cursor' = o.value
              /\ Finish({r}, Ok(ExtractCategoryResults(o.value)))
    /\ UNCHANGED <<dbvars, op, arg, wishlist, category, batch, idx, cache>>
    /\ UNCHANGED history

(***************************************************************************)
(* get_category_by_name, alone and as the first step of                    *)
(* handle_get_products_by_category_name                                    *)
(***************************************************************************)
\* Mutant: "null" is a name like any other.
IsNullNameNever(name) == FALSE

\* name == "null"
IsNullName(name) == name = "null"

\* Mutant: a category without id selects the products without category.
GetProductsByCategoryUnassigned(answered, c) ==
    Await(answered, ProductsRequest(ByCategoryQuery(c.id)), "products")

\* get_products_by_category: requires the category's id and calls
\* load_products with the filter {"category": id}.
GetProductsByCategory(answered, c) ==
    IF c.id = NoId
    THEN Finish(answered, Err(FieldNotLoaded("wishlist", "product_ids")))
    ELSE Await(answered, ProductsRequest(ByCategoryQuery(c.id)), "products")

GetCategoryByName ==
    /\ pc = "idle"
    /\ \E name \in CategoryNames :
         /\ op' = "getCategoryByName"
         /\ arg' = [NoArg EXCEPT !.name = name]
         /\ IF IsNullName(name)
            THEN /\ category' = DefaultCategory
                 /\ Finish({}, Ok(DefaultCategory))
            ELSE /\ category' = category
                 /\ Await({}, CategoryRequest(name), "category")
    /\ UNCHANGED <<dbvars, wishlist, cursor, batch, idx, cache>>
    /\ UNCHANGED history

GetProductsByCategoryName ==
    /\ pc = "idle"
    /\ \E name \in CategoryNames :
         /\ op' = "getProductsByCategoryName"
         /\ arg' = [NoArg EXCEPT !.name = name]
         /\ IF IsNullName(name)
            THEN /\ category' = DefaultCategory
                 /\ GetProductsByCategory({}, DefaultCategory)
            ELSE /\ category' = category
                 /\ Await({}, CategoryRequest(name), "category")
    /\ UNCHANGED <<dbvars, wishlist, cursor, batch, idx, cache>>
    /\ UNCHANGED history

\* The find_one of get_category_by_name answers.
CategoryAnswer ==
    /\ pc = "category"
    /\ \E r \in pending : \E o \in FindCategoryByName(categories, r.name) :
         IF o.status = "Err"
         THEN /\ Finish({r}, o)
              /\ category' = category
         ELSE /\ category' = o.value
              /\ IF op = "getCategoryByName"
                 THEN Finish({r}, o)
                 ELSE GetProductsByCategory({r}, o.value)
    /\ UNCHANGED <<dbvars, op, arg, wishlist, cursor, batch, idx, cache>>
    /\ UNCHANGED history

(***************************************************************************)
(* The caller takes the result; the handler's locals are dropped.          *)
(***************************************************************************)
TakeResult ==
    /\ pc = "done"
    /\ pc' = "idle"
    /\ op' = "none"
    /\ arg' = NoArg
    /\ pending' = {}
    /\ calls' = <<>>
    /\ wishlist' = NoWishlist
    /\ category' = DefaultCategory
    /\ cursor' = <<>>
    /\ batch' = <<>>
    /\ idx' = 0
    /\ cache' = EmptyCache
    /\ result' = NoResult
    /\ UNCHANGED dbvars

Return ==
    /\ TakeResult
    /\ UNCHANGED history

\* The products of a handler's successful result.
ProductsOf(res) ==
    IF op = "getLastWishlistHydrated" THEN res.value.products ELSE res.value

\* What the caller remembers once it has taken the result: of a count, the
\* value and the timestamp of the wishlist it was made for; of products, the
\* data of each source they carry.
Remembered ==
    IF result.status # "Ok" THEN history
    ELSE IF op = "getArchivedProductCount"
    THEN [history EXCEPT !.stamp = wishlist.timestamp, !.count = result.value]
    ELSE IF op \in {"getLastWishlistHydrated", "getNewestProducts",
                    "getArchivedProducts", "getProductsByCategoryName"}
    THEN LET ps == ProductsOf(result)
         IN [history EXCEPT !.fetched =
                [s \in SourceIds |->
                    IF \E i \in DOMAIN ps : ps[i].source.id = s
                    THEN (ps[CHOOSE i \in DOMAIN ps : ps[i].source.id = s]).source.data
                    ELSE history.fetched[s]]]
    ELSE history

\* The observing caller takes the result.
ReturnObserved ==
    /\ TakeResult
    /\ history' = Remembered

(***************************************************************************)
(* Writers of the database (other programs): between two handler calls a   *)
(* newer wishlist is stored, or the content of a source changes.           *)
(***************************************************************************)
\* A stored wishlist carries product_ids or lacks the field.  Wishlists are
\* stamped by a clock: their timestamps are distinct and the one stored last
\* is the latest.
WishlistDoc(t, loaded, ids) == [timestamp |-> t, loaded |-> loaded, product_ids |-> ids]

StoreWishlist ==
    /\ pc = "idle"
    /\ Cardinality(wishlists) < MaxWishlists
    /\ \E d \in {WishlistDoc(Cardinality(wishlists) + 1, FALSE, {})}
                  \cup {WishlistDoc(Cardinality(wishlists) + 1, TRUE, ids) :
                        ids \in SUBSET ProductIds} :
         wishlists' = wishlists \cup {d}
    /\ UNCHANGED <<products, sources, categories, op, arg, pc, pending, calls,
                   locals, result>>
    /\ UNCHANGED history

UpdateSource ==
    /\ pc = "idle"
    /\ \E s \in SourceIds :
         /\ sources[s] \in 1..(MaxVersion - 1)
         /\ sources' = [sources EXCEPT ![s] = sources[s] + 1]
    /\ UNCHANGED <<wishlists, products, categories, op, arg, pc, pending, calls,
                   locals, result>>
    /\ UNCHANGED history

(***************************************************************************)
(* Initial databases.  Each family varies one part of the database over    *)
(* all its values and holds the other parts fixed.                         *)
(***************************************************************************)
\* Odd products are in category 1, even ones in none.
CategoryOf(id) == IF id % 2 = 1 THEN 1 ELSE NoId
ProductDoc(id, t, sid) ==
    [id |-> id, timestamp |-> t, source_id |-> sid, category |-> CategoryOf(id)]

\* The fixed parts: timestamps that do not follow the identifiers, source ids
\* shared by several products, every source stored with its last content, one
\* category, and MaxWishlists wishlists of which the latest holds every
\* product but the first.
TimestampOf(id) == 1 + (id % MaxTimestamp)
SourceIdOf(id) == 1 + (id % MaxSourceId)
AllProducts == {ProductDoc(i, TimestampOf(i), SourceIdOf(i)) : i \in ProductIds}
AllSources == [s \in SourceIds |-> MaxVersion]
OneCategory == {[id |-> 1, name |-> "A"]}
FullWishlists ==
    {WishlistDoc(t, TRUE, IF t = MaxWishlists THEN ProductIds \ {1} ELSE {}) :
        t \in 1..MaxWishlists}

\* The collection with every product, and the one that lacks the first.
WishlistCollections == {AllProducts, {d \in AllProducts : d.id # 1}}

\* Any collection over ProductIds with any timestamps.
SmallCollections ==
    UNION {{{ProductDoc(i, ts[i], SourceIdOf(i)) : i \in present} :
              ts \in [present -> 1..MaxTimestamp]} :
           present \in SUBSET ProductIds}

\* Every product present, with any source id or none.
HydrationCollections ==
    {{ProductDoc(i, TimestampOf(i), sid[i]) : i \in ProductIds} :
        sid \in [ProductIds -> 0..MaxSourceId]}

\* Collections around NewestLimit documents.
LargeCollections ==
    {{ProductDoc(i, TimestampOf(i), SourceIdOf(i)) : i \in 1..n} :
        n \in (NewestLimit - 1)..(NewestLimit + MaxExtra)}

CategoryDocs == {[id |-> 1, name |-> "A"], [id |-> 2, name |-> "null"], [id |-> 3, name |-> "A"]}

\* No wishlist yet (the writers store them), over the two wishlist collections.
InitWishlists ==
    /\ wishlists = {}
    /\ products \in WishlistCollections
    /\ sources = AllSources
    /\ categories = OneCategory

InitProducts ==
    /\ wishlists = FullWishlists
    /\ products \in SmallCollections \cup LargeCollections
    /\ sources = AllSources
    /\ categories = OneCategory

\* Any subset of the sources stored.
InitHydration ==
    /\ wishlists = FullWishlists
    /\ products \in HydrationCollections
    /\ sources \in [SourceIds -> {0, MaxVersion}]
    /\ categories = OneCategory

\* Every source with its first content (the writers change it).
InitSources ==
    /\ wishlists = FullWishlists
    /\ products = AllProducts
    /\ sources = [s \in SourceIds |-> 1]
    /\ categories = OneCategory

InitCategories ==
    /\ wishlists = FullWishlists
    /\ products = AllProducts
    /\ sources = AllSources
    /\ categories \in SUBSET CategoryDocs

InitLocals ==
    /\ op = "none"
    /\ arg = NoArg
    /\ pc = "idle"
    /\ pending = {}
    /\ calls = <<>>
    /\ wishlist = NoWishlist
    /\ category = DefaultCategory
    /\ cursor = <<>>
    /\ batch = <<>>
    /\ idx = 0
    /\ cache = EmptyCache
    /\ result = NoResult

Init ==
    /\ InitWishlists \/ InitProducts \/ InitHydration \/ InitSources \/ InitCategories
    /\ history = NoHistory
    /\ InitLocals

Next ==
    \/ GetLastWishlistHydrated
    \/ LoadWishlist
    \/ LoadWishlistProducts
    \/ GetNewestProducts
    \/ GetArchivedProducts
    \/ ArchivedProductsWishlist
    \/ GetArchivedProductCount
    \/ ArchivedCountWishlist
    \/ ArchivedCountAnswer
    \/ LoadProducts
    \/ SourceAnswer
    \/ GetCategories
    \/ CategoriesAnswer
    \/ GetCategoryByName
    \/ GetProductsByCategoryName
    \/ CategoryAnswer
    \/ Return
    \/ StoreWishlist
    \/ UpdateSource

Spec == Init /\ [][Next]_vars

(***************************************************************************)
(* The handlers under a caller that remembers the results of its earlier   *)
(* calls, over the databases in which a writer acts between two calls: one *)
(* wishlist stored and newer ones to come, or sources whose content is     *)
(* still to change.                                                        *)
(***************************************************************************)
InitOneWishlist ==
    /\ wishlists = {WishlistDoc(1, TRUE, ProductIds \ {1})}
    /\ products = AllProducts
    /\ sources = AllSources
    /\ categories = OneCategory

InitObserved ==
    /\ InitOneWishlist \/ InitSources
    /\ history = NoHistory
    /\ InitLocals

NextObserved ==
    \/ GetLastWishlistHydrated
    \/ LoadWishlist
    \/ LoadWishlistProducts
    \/ GetNewestProducts
    \/ GetArchivedProducts
    \/ ArchivedProductsWishlist
    \/ GetArchivedProductCount
    \/ ArchivedCountWishlist
    \/ ArchivedCountAnswer
    \/ LoadProducts
    \/ SourceAnswer
    \/ GetCategories
    \/ CategoriesAnswer
    \/ GetCategoryByName
    \/ GetProductsByCategoryName
    \/ CategoryAnswer
    \/ ReturnObserved
    \/ StoreWishlist
    \/ UpdateSource

SpecObserved == InitObserved /\ [][NextObserved]_vars

(***************************************************************************)
(* Vocabulary of the properties.                                           *)
(***************************************************************************)
Succeeded == pc = "done" /\ result.status = "Ok"
HydratingOps == {"getLastWishlistHydrated", "getNewestProducts", "getArchivedProducts",
                 "getProductsByCategoryName"}
WishlistOps == {"getLastWishlistHydrated", "getArchivedProducts", "getArchivedProductCount"}

\* The positions of calls at which a call to coll was issued.
CallsTo(coll) == {i \in DOMAIN calls : calls[i].coll = coll}
\* The number of lookups of source s issued.
SourceLookups(s) ==
    Cardinality({i \in DOMAIN calls : calls[i].coll = "source" /\ calls[i].id = s})
\* The stored documents a product sequence was decoded from.
Docs(ps) == {ps[i].doc : i \in DOMAIN ps}
SourceIdsOf(ps) == {ps[i].source_id : i \in DOMAIN ps}
\* The documents the cursor yielded, and those it yielded without error.
Delivered == {cursor[i].doc : i \in DOMAIN cursor}
DeliveredOk == {cursor[i].doc : i \in {j \in DOMAIN cursor : cursor[j].ok}}
ProductIdsStored == {d.id : d \in products}
\* The number of documents of E with a greater identifier than d.
Rank(d, E) == Cardinality({e \in E : e.id > d.id})
InWindow(n, skip, limit) == skip <= n /\ n < skip + limit
DescendingDocs(ps) == \A i, j \in DOMAIN ps : i < j => ps[i].doc > ps[j].doc
\* The product-id set S of the latest wishlist.
LatestIds == LatestWishlist(wishlists).product_ids
NotArchived == {d \in products : d.id \in LatestIds}
Archived == {d \in products : d.id \notin LatestIds}

\* C1: in a successful hydration every source id of the batch was looked up
\* in the source collection exactly once, however many products carry it, and
\* no other source was looked up: the number of source lookups is the number
\* of distinct source ids of the batch.
C1_OneLookupPerSourceId ==
    (Succeeded /\ op \in HydratingOps) =>
        /\ \A s \in SourceIds :
             SourceLookups(s) = IF s \in SourceIdsOf(batch) THEN 1 ELSE 0
        /\ Cardinality(CallsTo("source")) = Cardinality(SourceIdsOf(batch))

C1_Witness ==
    /\ Succeeded
    /\ op \in HydratingOps
    /\ Cardinality(SourceIdsOf(batch)) >= 2
    /\ \E i, j \in DOMAIN batch : i # j /\ batch[i].source_id = batch[j].source_id

\* C2: getArchivedProducts reads the wishlist of greatest timestamp and never
\* returns a product whose identifier is in its product-id set S, whatever the
\* pagination; with S empty no product is excluded: every product of the
\* collection whose rank by descending identifier lies in the page is yielded
\* by the cursor.
C2_ArchivedExcludesWishlist ==
    (Succeeded /\ op = "getArchivedProducts") =>
        /\ wishlist = WishlistFrom(LatestWishlist(wishlists))
        /\ Docs(result.value) \cap LatestIds = {}
        /\ LatestIds = {} =>
             \A d \in products :
                 InWindow(Rank(d, products), arg.offset, arg.per_page) => d \in Delivered

C2_Witness ==
    /\ Succeeded
    /\ op = "getArchivedProducts"
    /\ Cardinality(wishlists) >= 2
    /\ NotArchived # {}
    /\ result.value # <<>>

\* C3: when every id of the latest wishlist's product-id set S is the id of a
\* stored product, getArchivedProductCount returns the number of stored
\* products minus |S|.
C3_ArchivedCount ==
    (Succeeded /\ op = "getArchivedProductCount" /\ LatestIds \subseteq ProductIdsStored) =>
        result.value = Cardinality(products) - Cardinality(LatestIds)

\* The example of the specification: product_ids [p1, p2], products
\* {p1, p2, p3}, count 1.
C3_Witness ==
    /\ Succeeded
    /\ op = "getArchivedProductCount"
    /\ LatestIds = {1, 2}
    /\ ProductIdsStored = {1, 2, 3}
    /\ result.value = 1

\* C4: a page of getArchivedProducts holds at most per_page products in
\* descending-identifier order, each of rank offset..offset+per_page-1 among
\* the archived products, and shares no product with the page that the same
\* collections yield for offset + per_page.
C4_PagesDisjoint ==
    (Succeeded /\ op = "getArchivedProducts") =>
        /\ Len(result.value) <= arg.per_page
        /\ DescendingDocs(result.value)
        /\ \A d \in Archived :
             d.id \in Docs(result.value) =>
                 InWindow(Rank(d, Archived), arg.offset, arg.per_page)
        /\ \A next \in Find(products, ArchivedQuery(LatestIds, arg.offset + arg.per_page,
                                                    arg.per_page)) :
             Docs(result.value) \cap {next[i].id : i \in DOMAIN next} = {}

C4_Witness ==
    /\ Succeeded
    /\ op = "getArchivedProducts"
    /\ arg.offset = arg.per_page
    /\ result.value # <<>>
    /\ \E next \in Find(products, ArchivedQuery(LatestIds, arg.offset + arg.per_page,
                                                arg.per_page)) : next # <<>>

\* The parts of C5 that do not depend on the cursor: the wishlist returned is
\* the one of greatest timestamp, its products are each there once, in
\* descending timestamp order, each with the Source stored under its source_id.
HydratedLatestWishlist ==
    /\ result.value.timestamp = LatestWishlist(wishlists).timestamp
    /\ result.value.product_ids = LatestIds
    /\ result.value.has_products
    /\ \A i, j \in DOMAIN result.value.products :
         /\ i # j => result.value.products[i].doc # result.value.products[j].doc
         /\ i < j => result.value.products[i].timestamp
                         >= result.value.products[j].timestamp
    /\ \A i \in DOMAIN result.value.products :
         LET p == result.value.products[i]
         IN /\ p.source_id \in SourceIds
            /\ sources[p.source_id] # 0
            /\ p.source = SourceFrom(p.source_id, sources[p.source_id])

\* C5, as stated: on success getLastWishlistHydrated returns the latest
\* wishlist with exactly the stored products whose id is in its product_ids.
C5_Original ==
    (Succeeded /\ op = "getLastWishlistHydrated") =>
        /\ HydratedLatestWishlist
        /\ Docs(result.value.products) = {d.id : d \in NotArchived}

\* C5, amended: on success getLastWishlistHydrated returns the wishlist of
\* greatest timestamp; the cursor yields exactly the stored products whose id
\* is in its product_ids, and the attached sequence holds those of them whose
\* cursor entry did not fail, each once, in descending timestamp order, each
\* with its resolved Source.
C5_HydratedWishlist ==
    (Succeeded /\ op = "getLastWishlistHydrated") =>
        /\ HydratedLatestWishlist
        /\ Delivered = NotArchived
        /\ Docs(result.value.products) = {d.id : d \in DeliveredOk}

C5_Witness ==
    /\ Succeeded
    /\ op = "getLastWishlistHydrated"
    /\ Cardinality(wishlists) >= 2
    /\ Delivered # DeliveredOk
    /\ \E i, j \in DOMAIN result.value.products :
         result.value.products[i].timestamp > result.value.products[j].timestamp

\* C6: once a handler has read a wishlist whose product_ids are not loaded, it
\* has returned FieldNotLoaded("wishlist", "product_ids") (not EmptyResult, not
\* a value), has issued no call to the product or the source collection, and
\* the wishlist has no products set; this holds for the hydration, the
\* archived listing and the archived count alike.
C6_ProductIdsNotLoaded ==
    (op \in WishlistOps /\ wishlist # NoWishlist /\ ~wishlist.loaded) =>
        /\ pc = "done"
        /\ result = Err(FieldNotLoaded("wishlist", "product_ids"))
        /\ CallsTo("product") = {}
        /\ CallsTo("source") = {}
        /\ ~wishlist.has_products
        /\ wishlist.products = <<>>

C6_Witness ==
    /\ op = "getLastWishlistHydrated"
    /\ pc = "done"
    /\ wishlist # NoWishlist
    /\ ~wishlist.loaded
    /\ products # {}

C8_NullCategory ==
    /\ (op = "getCategoryByName" /\ arg.name = "null") =>
           /\ pc = "done"
           /\ calls = <<>>
           /\ pending = {}
           /\ result = Ok(DefaultCategory)
    /\ (op = "getProductsByCategoryName" /\ arg.name = "null") =>
           /\ category = DefaultCategory
           /\ CallsTo("category") = {}

C8_Witness ==
    /\ op = "getCategoryByName"
    /\ arg.name = "null"
    /\ pc = "done"
    /\ \E c \in categories : c.name = "null"

\* C9: for a name other than "null" that no stored category carries,
\* getCategoryByName and getProductsByCategoryName end in an error and never
\* in a value, the error is EmptyResult whenever the storage has answered the
\* lookup (a failure of the storage client itself is passed on), and no call
\* to the product collection is issued.
C9_UnknownCategory ==
    (/\ op \in {"getCategoryByName", "getProductsByCategoryName"}
     /\ arg.name # "null"
     /\ CategoriesNamed(categories, arg.name) = {}) =>
        /\ CallsTo("product") = {}
        /\ category = DefaultCategory
        /\ pc = "done" =>
             /\ result.status = "Err"
             /\ result.error # StorageError => result = Err(EmptyResult)

C9_Witness ==
    /\ op = "getProductsByCategoryName"
    /\ arg.name = "B"
    /\ categories # {}
    /\ products # {}
    /\ result = Err(EmptyResult)

\* C10: with an empty wishlist collection getLastWishlistHydrated,
\* getArchivedProducts and getArchivedProductCount end in an error, which is
\* EmptyResult whenever the storage has answered the wishlist read, and issue
\* no call to the product or the source collection.
C10_NoWishlist ==
    (op \in WishlistOps /\ wishlists = {}) =>
        /\ CallsTo("product") = {}
        /\ CallsTo("source") = {}
        /\ wishlist = NoWishlist
        /\ pc = "done" =>
             /\ result.status = "Err"
             /\ result.error # StorageError => result = Err(EmptyResult)

C10_Witness ==
    /\ op = "getArchivedProducts"
    /\ wishlists = {}
    /\ products # {}
    /\ result = Err(EmptyResult)

\* The handler has returned a FieldNotLoaded error.
FieldNotLoadedReturned ==
    pc = "done" /\ result.status = "Err" /\ result.error.kind = "FieldNotLoaded"
\* The hydration loop stands at a product without source id.
AtProductWithoutSourceId == idx \in DOMAIN batch /\ batch[idx].source_id = NoId

\* C11: every FieldNotLoaded error a handler returns names the entity and the
\* field whose absence caused it: (wishlist, product_ids) when the wishlist
\* read lacks product_ids, (product, source_id) when the hydration loop stands
\* at a product without source id, and the category when
\* getProductsByCategoryName has resolved a category without identifier.
C11_FieldNotLoadedNames ==
    FieldNotLoadedReturned =>
        \/ /\ op \in WishlistOps
           /\ ~wishlist.loaded
           /\ result.error = FieldNotLoaded("wishlist", "product_ids")
        \/ /\ op \in HydratingOps
           /\ AtProductWithoutSourceId
           /\ result.error = FieldNotLoaded("product", "source_id")
        \/ /\ op = "getProductsByCategoryName"
           /\ category.id = NoId
           /\ result.error.entity = "category"

\* A hydrating handler has returned after its product cursor was extracted to
\* a batch that is not empty.
HydrationEnded == pc = "done" /\ op \in HydratingOps /\ batch # <<>>
\* Hydration cannot get past position i of ps: the product has no source id
\* or no source is stored under it.
BadAt(ps, i) == ps[i].source_id = NoId \/ sources[ps[i].source_id] = 0
BadPositions(ps) == {i \in DOMAIN ps : BadAt(ps, i)}
\* The source ids of the products of ps up to position i.
SourceIdsUpTo(ps, i) == {ps[j].source_id : j \in 1..i}
SourceIdsLookedUp == {calls[k].id : k \in CallsTo("source")}

\* C12: a batch with a product that has no source id, or whose source id is
\* not stored, is never returned: the operation ends in an error at or before
\* the first such position.  When hydration has failed at position idx, only
\* source ids of products up to idx were looked up, no product from idx on
\* carries a source, the error is FieldNotLoaded(product, source_id) for an
\* absent source id and otherwise the error of the last lookup, which was for
\* that product's source id (EmptyResult only if no source is stored under
\* it), no call is outstanding and no products were set on the wishlist.
C12_HydrationAborts ==
    HydrationEnded =>
        /\ BadPositions(batch) # {} =>
              /\ result.status = "Err"
              /\ \A i \in BadPositions(batch) : idx <= i
        /\ result.status = "Err" =>
              /\ idx \in DOMAIN batch
              /\ SourceIdsLookedUp \subseteq SourceIdsUpTo(batch, idx)
              /\ \A j \in idx..Len(batch) : batch[j].source = NoSource
              /\ pending = {}
              /\ ~wishlist.has_products
              /\ IF batch[idx].source_id = NoId
                 THEN result = Err(FieldNotLoaded("product", "source_id"))
                 ELSE /\ calls[Len(calls)] = SourceRequest(batch[idx].source_id)
                      /\ result.error.kind \in {"EmptyResult", "StorageError"}
                      /\ result.error.kind = "EmptyResult" =>
                            sources[batch[idx].source_id] = 0

\* Hydration failed at a product without source id after a product was
\* hydrated, and a later product carries a source id never seen before.
C12_Witness ==
    /\ HydrationEnded
    /\ result = Err(FieldNotLoaded("product", "source_id"))
    /\ idx >= 2
    /\ batch[1].source # NoSource
    /\ \E j \in (idx + 1)..Len(batch) :
          batch[j].source_id \notin {NoId} \cup SourceIdsUpTo(batch, idx)


\* The hydration of a batch is under way or over.
InHydration == op \in HydratingOps /\ pc \in {"source", "done"} /\ batch # <<>>
\* The batch as it was handed to load_source_for_products: the products
\* extracted from the cursor of the handler's product query.
ProductQuery == calls[CHOOSE k \in CallsTo("product") : TRUE].query
Extracted == ExtractCursorResults(cursor, ProductQuery.projected)
\* The Source stored under the source id of p.
StoredSourceOf(p) == SourceFrom(p.source_id, sources[p.source_id])
\* The products a successful handler returns.
ReturnedProducts ==
    IF op = "getLastWishlistHydrated" THEN result.value.products ELSE result.value

\* C13: all along a hydration the batch is the extracted batch, position by
\* position, in every field but source; the products before the loop's
\* position carry the Source stored under their source id and the others
\* none, so that each source is set once and never changed; on success the
\* handler returns this batch, in which every product carries the stored
\* Source of its source id and products of equal source id equal Sources.
C13_HydrationFrame ==
    InHydration =>
        /\ Len(batch) = Len(Extracted)
        /\ \A i \in DOMAIN batch : [batch[i] EXCEPT !.source = NoSource] = Extracted[i]
        /\ \A i \in DOMAIN batch :
              batch[i].source = IF i < idx THEN StoredSourceOf(batch[i]) ELSE NoSource
        /\ Succeeded =>
              /\ idx = Len(batch) + 1
              /\ ReturnedProducts = batch
              /\ \A i, j \in DOMAIN batch :
                    batch[i].source_id = batch[j].source_id =>
                        batch[i].source = batch[j].source

\* A batch of three or more products was hydrated and returned; two of its
\* products share a source and two do not.
C13_Witness ==
    /\ InHydration
    /\ Succeeded
    /\ Len(ReturnedProducts) >= 3
    /\ \E i, j \in DOMAIN batch :
          i # j /\ batch[i].source = batch[j].source /\ batch[i].source # NoSource
    /\ \E i, j \in DOMAIN batch : batch[i].source.id # batch[j].source.id

\* The place of a collection in the order of dependency: the wishlist or the
\* category tells which products are read, the products which sources.
Level(coll) == CASE coll \in {"wishlist", "category"} -> 1
                 [] coll = "product" -> 2
                 [] OTHER -> 3

\* C14: a handler has at most one storage call outstanding, which is the call
\* it issued last, and none when it is idle or has returned; its calls were
\* issued in dependency order, a product read after the wishlist or category
\* read and the source reads after the product read, so that each read had
\* been answered when the next was issued.  getLastWishlistHydrated issues
\* one wishlist read, then one product read, then source reads only, and at
\* the await of the product read no source read has been issued.
C14_OneCallAtATime ==
    /\ Cardinality(pending) <= 1
    /\ pending = IF pc \in {"idle", "done"} THEN {} ELSE {calls[Len(calls)]}
    /\ \A i, j \in DOMAIN calls :
          i < j => /\ Level(calls[i].coll) <= Level(calls[j].coll)
                   /\ Level(calls[i].coll) < 3 => calls[i].coll # calls[j].coll
    /\ op = "getLastWishlistHydrated" =>
          /\ \A i \in DOMAIN calls :
                calls[i].coll = CASE i = 1 -> "wishlist" [] i = 2 -> "product"
                                  [] OTHER -> "source"
          /\ pc = "wishlist" => calls = <<WishlistRequest>>
          /\ pc = "products" => Len(calls) = 2
          /\ pc = "source" => Len(calls) >= 3

\* getLastWishlistHydrated awaits its second source read, after the wishlist
\* read and the product read.
C14_Witness ==
    /\ op = "getLastWishlistHydrated"
    /\ pc = "source"
    /\ Len(calls) = 4
    /\ pending = {calls[4]}

\* The number of products getArchivedProducts returns for a page when the
\* latest wishlist holds ids, no cursor entry fails and hydration succeeds.
\* (The sort by identifier leaves the storage one order to deliver.)
PageLen(ids, offset, perPage) ==
    LET ds == CHOOSE s \in Find(products, ArchivedQuery(ids, offset, perPage)) : TRUE
    IN Len(ExtractCursorResults(Entries(ds, {}), TRUE))
\* The products listed over the pages offset, offset + perPage, ... up to the
\* first empty page.
RECURSIVE ListedFrom(_, _, _)
ListedFrom(ids, offset, perPage) ==
    LET n == PageLen(ids, offset, perPage)
    IN IF n = 0 THEN 0 ELSE n + ListedFrom(ids, offset + perPage, perPage)
\* The part of n records that falls in the page.
PageShare(n, offset, perPage) == IF n <= offset THEN 0 ELSE Min(perPage, n - offset)
NoCursorError == \A i \in DOMAIN cursor : cursor[i].ok

\* C15: on one database the archived count and the archived listing agree.
\* The value getArchivedProductCount returns is, for every page size, the
\* number of products that getArchivedProducts lists over the pages
\* 0, perPage, 2*perPage, ... of that database; and a page that
\* getArchivedProducts returns without a failed cursor entry holds the part
\* of the counted records that falls in it, so that the pages add up to the
\* count.
C15_CountMatchesListing ==
    /\ (Succeeded /\ op = "getArchivedProductCount") =>
          \A perPage \in 1..MaxPerPage : result.value = ListedFrom(LatestIds, 0, perPage)
    /\ (Succeeded /\ op = "getArchivedProducts" /\ NoCursorError) =>
          Len(result.value)
              = PageShare(CountDocuments(products, ArchivedCountQuery(LatestIds)),
                          arg.offset, arg.per_page)

\* The count is two or more while the latest wishlist excludes a stored
\* product: the listing takes several pages.
C15_Witness ==
    /\ Succeeded
    /\ op = "getArchivedProductCount"
    /\ result.value >= 2
    /\ NotArchived # {}
    /\ ListedFrom(LatestIds, 0, 1) = result.value

ArchivedOps == {"getArchivedProducts", "getArchivedProductCount"}
\* The handler has read its wishlist.
WishlistRead == wishlist # NoWishlist
\* The caller remembers a count.
CountTaken == history.stamp # 0
\* The product-id set of the wishlist the remembered count was made for.
CountedIds == (CHOOSE w \in wishlists : w.timestamp = history.stamp).product_ids
\* The listing handler has returned a page of which no cursor entry failed.
PageListed == Succeeded /\ op = "getArchivedProducts" /\ NoCursorError

\* C16: getArchivedProducts and getArchivedProductCount each begin with a
\* wishlist read of their own, and the wishlist they work with is a stored
\* one of greatest timestamp at that call, never one an earlier call read.
\* A page listed after a count was taken agrees with that count whenever the
\* wishlist read for the listing has the product-id set of the one the count
\* was made for: the count is the number of products listed over all pages
\* and the page holds its part of it.  (The witness is the state the claim
\* says is reachable: a newer wishlist with another product-id set was stored
\* after the count, and the count differs from the number listed.)
C16_OwnWishlistRead ==
    /\ (op \in ArchivedOps /\ pc # "idle") =>
          /\ calls[1] = WishlistRequest
          /\ WishlistRead =>
                /\ \E w \in wishlists : wishlist = WishlistFrom(w)
                /\ \A w \in wishlists : w.timestamp <= wishlist.timestamp
    /\ (PageListed /\ CountTaken /\ CountedIds = wishlist.product_ids) =>
          /\ history.count = ListedFrom(wishlist.product_ids, 0, arg.per_page)
          /\ Len(result.value) = PageShare(history.count, arg.offset, arg.per_page)

\* A count was taken, a newer wishlist with another product-id set was
\* stored, and the listing made then lists over all its pages a number of
\* products that is not the count.
C16_Witness ==
    /\ PageListed
    /\ CountTaken
    /\ history.stamp < wishlist.timestamp
    /\ CountedIds # wishlist.product_ids
    /\ history.count # ListedFrom(wishlist.product_ids, 0, arg.per_page)
    /\ Len(result.value) # PageShare(history.count, arg.offset, arg.per_page)

\* The entries of the cursor that did not fail, in cursor order.
IsOk(e) == e.ok
OkEntries == SelectSeq(cursor, IsOk)
\* The find_one behind the call r matches a stored document.
HasMatch(r) ==
    CASE r.coll = "wishlist" -> wishlists # {}
      [] r.coll = "category" -> CategoriesNamed(categories, r.name) # {}
      [] OTHER -> sources[r.id] # 0
SingleLookups == {k \in DOMAIN calls : calls[k].kind = "find_one"}

\* C17: the batch a product listing extracts from its cursor, and on success
\* returns, holds one product for each cursor entry that did not fail, in
\* cursor order and to the end of the cursor, whatever entries failed; so
\* does the category list getCategories returns.  A single-record lookup
\* without match is never passed over: no handler succeeds after one, and a
\* handler whose last call was one has ended in an error.
C17_FailedRecordsSkipped ==
    /\ InHydration =>
          /\ Len(batch) = Len(OkEntries)
          /\ \A i \in DOMAIN batch : batch[i].doc = OkEntries[i].doc.id
          /\ Succeeded => ReturnedProducts = batch
    /\ (op = "getCategories" /\ pc = "done" /\ CallsTo("category") # {}
           /\ result # Err(StorageError)) =>
          /\ Succeeded
          /\ Len(result.value) = Len(OkEntries)
          /\ \A i \in DOMAIN result.value : result.value[i] = CategoryFrom(OkEntries[i].doc)
    /\ Succeeded => \A k \in SingleLookups : HasMatch(calls[k])
    /\ (pc = "done" /\ calls # <<>> /\ Len(calls) \in SingleLookups
           /\ ~HasMatch(calls[Len(calls)])) =>
          /\ result.status = "Err"
          /\ result.error \in {EmptyResult, StorageError}

\* A product listing succeeded although an entry of its cursor failed before
\* the last one: the entries after it are in the result.
C17_Witness ==
    /\ InHydration
    /\ Succeeded
    /\ \E i, j \in DOMAIN cursor : i < j /\ ~cursor[i].ok /\ cursor[j].ok
    /\ Len(ReturnedProducts) = Len(cursor) - 1

\* The caller remembers for source s a content that is no longer stored.
SeenStale(s) == history.fetched[s] # 0 /\ history.fetched[s] # sources[s]

\* C18: whatever earlier calls returned, a handler's cache is empty until its
\* own hydration loop runs and then holds only sources this handler looked
\* up; every product the loop has passed had its source id looked up in the
\* storage by this handler, once, and carries the Source stored now, also
\* when an earlier call returned another content for that source id.
C18_CachePerCall ==
    /\ pc \notin {"source", "done"} => DOMAIN cache = {}
    /\ DOMAIN cache \subseteq SourceIdsLookedUp
    /\ \A s \in DOMAIN cache : cache[s] = SourceFrom(s, sources[s])
    /\ InHydration =>
          \A i \in DOMAIN batch :
              i < idx => /\ SourceLookups(batch[i].source_id) = 1
                         /\ batch[i].source = StoredSourceOf(batch[i])

\* A handler returns products with the content a source has now, after an
\* earlier call returned the content it had before.
C18_Witness ==
    /\ InHydration
    /\ Succeeded
    /\ \E i \in DOMAIN batch :
          /\ SeenStale(batch[i].source_id)
          /\ batch[i].source.data = sources[batch[i].source_id]
          /\ SourceLookups(batch[i].source_id) = 1

\* C19: the default Category carrying no identifier,
\* getProductsByCategoryName("null") has returned at once, without any
\* storage call issued or outstanding and without a cursor or a batch, and
\* its result is a FieldNotLoaded error, never a list of products.
C19_NullCategoryFails ==
    (op = "getProductsByCategoryName" /\ arg.name = "null" /\ DefaultCategory.id = NoId) =>
        /\ pc = "done"
        /\ calls = <<>>
        /\ pending = {}
        /\ cursor = <<>>
        /\ batch = <<>>
        /\ result.status = "Err"
        /\ result.error.kind = "FieldNotLoaded"

\* getProductsByCategoryName("null") has failed although products without
\* category and a category named "null" are stored.
C19_Witness ==
    /\ op = "getProductsByCategoryName"
    /\ arg.name = "null"
    /\ FieldNotLoadedReturned
    /\ \E d \in products : d.category = NoId
    /\ \E c \in categories : c.name = "null"

=============================================================================
